---- MODULE Spec2Model ----
(***************************************************************************)
(* Model of the expression-language front end: the scanner                 *)
(* (src/src/lexer.rs), the recursive-descent parser (src/src/parser.rs)    *)
(* and the driver that runs one after the other (src/src/main.rs).         *)
(*                                                                         *)
(* Characters are one-character strings, a source text is a sequence of    *)
(* characters.  Rust indices are kept 0-based (parser.current); the        *)
(* sequence element at Rust index i is element i + 1 here.                 *)
(***************************************************************************)
EXTENDS Integers, Sequences, FiniteSets, TLC

VARIABLES
    source,        \* the text handed to scan (main.rs: contents)
    lexer,         \* struct Lexer: chars, tokens, current_lexeme, line, column, token_start_*
    scan_result,   \* what scan returned: Pending, Ok(tokens), Err(error) or Panic
    pc,            \* where main is: "scan", "scanned", "parse" or "done"
    parser,        \* struct Parser: tokens, current
    stack,         \* call stack of the recursive descent, innermost frame last
    ret,           \* Result returned by the production that returned last
    parse_result   \* what Parser::parse returned: Pending, Ok(expr) or Err(error)

vars == <<source, lexer, scan_result, pc, parser, stack, ret, parse_result>>

None == "<none>"

(***************************************************************************)
(* Bounds of the model.                                                    *)
(***************************************************************************)
MaxSrcLen == 3
MaxShortLen == 2
MaxOperands == 3
MaxNesting == 3
MaxPrefix == 3

(***************************************************************************)
(* Character classes used by the scanner.                                  *)
(***************************************************************************)
Digits == {"0", "1", "2", "3", "4", "5", "6", "7", "8", "9"}

DigitValue(c) ==
    CASE c = "0" -> 0 [] c = "1" -> 1 [] c = "2" -> 2 [] c = "3" -> 3
      [] c = "4" -> 4 [] c = "5" -> 5 [] c = "6" -> 6 [] c = "7" -> 7
      [] c = "8" -> 8 [] c = "9" -> 9

AsciiAlphabetic ==
    {"a", "b", "c", "d", "e", "f", "g", "h", "i", "j", "k", "l", "m",
     "n", "o", "p", "q", "r", "s", "t", "u", "v", "w", "x", "y", "z",
     "A", "B", "C", "D", "E", "F", "G", "H", "I", "J", "K", "L", "M",
     "N", "O", "P", "Q", "R", "S", "T", "U", "V", "W", "X", "Y", "Z"}

is_digit(c) == c \in Digits

is_ascii_alphabetic(c) == c \in AsciiAlphabetic

is_ascii_alphanumeric(c) == c \in AsciiAlphabetic \cup Digits

Whitespace == {" ", "\r", "\t", "\n"}

\* i32::MAX, 2147483647, as its decimal digits.
I32MaxDigits == <<"2", "1", "4", "7", "4", "8", "3", "6", "4", "7">>

TabWidth == 4

(***************************************************************************)
(* Token, TokenType and SyntaxError values.                                *)
(***************************************************************************)
TT(kind) == [kind |-> kind]

TTString(text) == [kind |-> "String", value |-> text]

TTNumber(n) == [kind |-> "Number", value |-> n]

Token(token_type, lexeme, line, column) ==
    [token_type |-> token_type, lexeme |-> lexeme, line |-> line, column |-> column]

SyntaxError(message, line, column) ==
    [message |-> message, line |-> line, column |-> column]

Ok(v) == [tag |-> "Ok", value |-> v]

Err(e) == [tag |-> "Err", error |-> e]

Panic == [tag |-> "Panic"]

Pending == [tag |-> "Pending"]

(***************************************************************************)
(* The scanner.  Every operator takes the Lexer value lx and returns the   *)
(* Lexer after the call, together with the call's return value if any.     *)
(***************************************************************************)
NewLexer(source_code) ==
    [chars |-> source_code,
     tokens |-> <<>>,
     current_lexeme |-> <<>>,
     line |-> 1,
     column |-> 0,
     token_start_line |-> 1,
     token_start_column |-> 1]

\* Variant: the error is placed from where the scanner stands when it fails.
new_error_from_cursor(lx, message) ==
    SyntaxError(message, lx.line, lx.column - Len(lx.current_lexeme) + 1)

new_error(lx, message) ==
    SyntaxError(message, lx.token_start_line, lx.token_start_column)

\* Variant: a tab counted as one column.
track_line_column_tab_as_one(lx, character) ==
    CASE character = "\n" -> [lx EXCEPT !.line = @ + 1, !.column = 0]
      [] OTHER -> [lx EXCEPT !.column = @ + 1]

\* Variant: a newline resets the column and leaves the line as it was.
track_line_column_on_one_line(lx, character) ==
    CASE character = "\n" -> [lx EXCEPT !.column = 0]
      [] character = "\t" -> [lx EXCEPT !.column = @ + TabWidth]
      [] OTHER -> [lx EXCEPT !.column = @ + 1]

track_line_column(lx, character) ==
    CASE character = "\n" -> [lx EXCEPT !.line = @ + 1, !.column = 0]
      [] character = "\t" -> [lx EXCEPT !.column = @ + TabWidth]
      [] OTHER -> [lx EXCEPT !.column = @ + 1]

\* consume: None when the characters are exhausted, else the character taken.
consume(lx) ==
    IF lx.chars = <<>>
    THEN [lx |-> lx, ch |-> None]
    ELSE LET character == Head(lx.chars)
             taken == [lx EXCEPT !.chars = Tail(@)]
             tracked == track_line_column(taken, character)
         IN [lx |-> [tracked EXCEPT !.current_lexeme = Append(@, character)],
             ch |-> character]

\* Variant: the character looked at is taken even when it does not match.
consume_if_taking(lx, ch) ==
    IF lx.chars # <<>>
    THEN [lx |-> consume(lx).lx, matched |-> Head(lx.chars) = ch]
    ELSE [lx |-> lx, matched |-> FALSE]

consume_if(lx, ch) ==
    IF lx.chars # <<>> /\ Head(lx.chars) = ch
    THEN [lx |-> consume(lx).lx, matched |-> TRUE]
    ELSE [lx |-> lx, matched |-> FALSE]

\* Variant: the position is worked out from where the scanner stands when
\* the token is complete.
add_token_from_cursor(lx, token_type) ==
    [lx EXCEPT
        !.tokens = Append(@, Token(token_type, lx.current_lexeme, lx.line,
                                   lx.column - Len(lx.current_lexeme) + 1)),
        !.current_lexeme = <<>>]

add_token(lx, token_type) ==
    [lx EXCEPT
        !.tokens = Append(@, Token(token_type, lx.current_lexeme,
                                   lx.token_start_line, lx.token_start_column)),
        !.current_lexeme = <<>>]

\* Variant: a newline ends the literal unterminated.
RECURSIVE string_loop_on_one_line(_)
string_loop_on_one_line(lx) ==
    LET c == consume(lx)
    IN IF c.ch = None \/ c.ch = "\n" THEN [lx |-> c.lx, is_string |-> FALSE]
       ELSE IF c.ch = "\"" THEN [lx |-> c.lx, is_string |-> TRUE]
       ELSE string_loop_on_one_line(c.lx)

\* The loop of the string branch: consume up to and including the closing quote.
RECURSIVE string_loop(_)
string_loop(lx) ==
    LET c == consume(lx)
    IN IF c.ch = None THEN [lx |-> c.lx, is_string |-> FALSE]
       ELSE IF c.ch = "\"" THEN [lx |-> c.lx, is_string |-> TRUE]
       ELSE string_loop(c.lx)

\* The loop of the number branch: consume while the next character is a digit.
RECURSIVE digit_loop(_)
digit_loop(lx) ==
    IF lx.chars # <<>> /\ is_digit(Head(lx.chars))
    THEN digit_loop(consume(lx).lx)
    ELSE lx

\* Variant: the run of an identifier is made of letters only.
RECURSIVE ident_loop_of_letters(_)
ident_loop_of_letters(lx) ==
    IF lx.chars # <<>> /\ is_ascii_alphabetic(Head(lx.chars))
    THEN ident_loop_of_letters(consume(lx).lx)
    ELSE lx

\* The loop of the identifier branch.
RECURSIVE ident_loop(_)
ident_loop(lx) ==
    IF lx.chars # <<>> /\ (is_ascii_alphanumeric(Head(lx.chars)) \/ Head(lx.chars) = "_")
    THEN ident_loop(consume(lx).lx)
    ELSE lx

\* The value of a run of decimal digits.
RECURSIVE DecimalValue(_)
DecimalValue(digits) ==
    IF digits = <<>> THEN 0
    ELSE 10 * DecimalValue(SubSeq(digits, 1, Len(digits) - 1))
         + DigitValue(digits[Len(digits)])

\* A digit run without its leading zeros.
RECURSIVE StripZeros(_)
StripZeros(digits) ==
    IF digits # <<>> /\ Head(digits) = "0" THEN StripZeros(Tail(digits)) ELSE digits

\* Digit runs of equal length compared as numbers.
RECURSIVE DigitsLeq(_, _)
DigitsLeq(a, b) ==
    IF a = <<>> THEN TRUE
    ELSE IF DigitValue(Head(a)) # DigitValue(Head(b))
    THEN DigitValue(Head(a)) < DigitValue(Head(b))
    ELSE DigitsLeq(Tail(a), Tail(b))

FitsI32(digits) ==
    LET d == StripZeros(digits)
    IN \/ Len(d) < Len(I32MaxDigits)
       \/ Len(d) = Len(I32MaxDigits) /\ DigitsLeq(d, I32MaxDigits)

\* str::parse::<i32> on a non-empty digit run: Err when the value does not fit.
parse_i32(lexeme) ==
    IF lexeme = <<>> THEN Err("Empty")
    ELSE IF \E i \in 1..Len(lexeme) : ~is_digit(lexeme[i]) THEN Err("InvalidDigit")
    ELSE IF FitsI32(lexeme) THEN Ok(DecimalValue(lexeme))
    ELSE Err("PosOverflow")

\* '!', '>' and '<': one character of lookahead decides the token.
MaybeEqual(lx, one, two) ==
    LET m == consume_if(lx, "=")
    IN IF m.matched THEN add_token(m.lx, TT(two)) ELSE add_token(m.lx, TT(one))

\* Variant: the lexeme of the step before is not cleared.
start_token_keeping_lexeme(lx) ==
    [lx EXCEPT !.token_start_line = lx.line,
               !.token_start_column = lx.column + 1]

\* Variant: the start column is taken 0-based.
start_token_zero_based(lx) ==
    [lx EXCEPT !.current_lexeme = <<>>,
               !.token_start_line = lx.line,
               !.token_start_column = lx.column]

\* The head of next_token: clear the lexeme, record where the token starts.
start_token(lx) ==
    [lx EXCEPT !.current_lexeme = <<>>,
               !.token_start_line = lx.line,
               !.token_start_column = lx.column + 1]

\* next_token: res is Ok(TRUE) to continue, Ok(FALSE) at the end of the
\* characters, Err(SyntaxError), or Panic (unwrap of a failed parse).
\* Variant: the words true and false are keywords too.
keyword_with_booleans(lexeme) ==
    CASE lexeme = <<"a", "n", "d">> -> "And"
      [] lexeme = <<"o", "r">> -> "Or"
      [] lexeme = <<"t", "r", "u", "e">> -> "True"
      [] lexeme = <<"f", "a", "l", "s", "e">> -> "False"
      [] OTHER -> None

\* The match on the lexeme of an identifier: the kind of the token it adds,
\* None for the arm that adds nothing.
keyword(lexeme) ==
    CASE lexeme = <<"a", "n", "d">> -> "And"
      [] lexeme = <<"o", "r">> -> "Or"
      [] OTHER -> None

next_token(lx0) ==
    LET first == consume(start_token(lx0))
        character == first.ch
        lx == first.lx
        continue(l) == [lx |-> l, res |-> Ok(TRUE)]
    IN CASE character = None -> [lx |-> lx, res |-> Ok(FALSE)]
         [] character = "(" -> continue(add_token(lx, TT("LeftParen")))
         [] character = ")" -> continue(add_token(lx, TT("RightParen")))
         [] character = "+" -> continue(add_token(lx, TT("Plus")))
         [] character = "-" -> continue(add_token(lx, TT("Minus")))
         [] character = "*" -> continue(add_token(lx, TT("Star")))
         [] character = "/" -> continue(add_token(lx, TT("Slash")))
         [] character = "!" -> continue(MaybeEqual(lx, "Bang", "BangEqual"))
         [] character = ">" -> continue(MaybeEqual(lx, "Greater", "GreaterEqual"))
         [] character = "<" -> continue(MaybeEqual(lx, "Less", "LessEqual"))
         [] character \in Whitespace -> continue(lx)
         [] character = "\"" ->
              LET s == string_loop(lx)
              IN IF ~s.is_string
                 THEN [lx |-> s.lx, res |-> Err(new_error(s.lx, <<"Invalid String">>))]
                 ELSE continue(add_token(s.lx,
                        TTString(SubSeq(s.lx.current_lexeme, 2,
                                        Len(s.lx.current_lexeme) - 1))))
         [] OTHER ->
              IF is_digit(character)
              THEN LET d == digit_loop(lx)
                       n == parse_i32(d.current_lexeme)
                   IN IF n.tag = "Ok"
                      THEN continue(add_token(d, TTNumber(n.value)))
                      ELSE [lx |-> d, res |-> Panic]
              ELSE IF is_ascii_alphabetic(character) \/ character = "_"
              THEN LET i == ident_loop(lx)
                       kind == keyword(i.current_lexeme)
                   IN IF kind # None
                      THEN continue(add_token(i, TT(kind)))
                      ELSE continue(i)
              ELSE [lx |-> lx,
                    res |-> Err(new_error(lx, <<"Unexpected Token: ", character>>))]

\* Variant: scan returns the tokens without the Eof token.
push_eof_omitted(lx) == lx

\* The end of scan: the Eof token is pushed with the final line and column.
push_eof(lx) ==
    [lx EXCEPT !.tokens = Append(@, Token(TT("Eof"), <<>>, lx.line, lx.column))]

\* One turn of the loop of scan, and what scan returns if the loop ends there.
scan_step(lx0) ==
    LET r == next_token(lx0)
    IN IF r.res.tag = "Ok" /\ r.res.value THEN [lx |-> r.lx, result |-> Pending]
       ELSE IF r.res.tag = "Ok"
       THEN [lx |-> push_eof(r.lx), result |-> Ok(push_eof(r.lx).tokens)]
       ELSE [lx |-> r.lx, result |-> r.res]

\* scan as a function of the source text.
RECURSIVE scan_loop(_)
scan_loop(lx) ==
    LET s == scan_step(lx)
    IN IF s.result.tag = "Pending" THEN scan_loop(s.lx) ELSE s.result

scan(source_code) == scan_loop(NewLexer(source_code))

(***************************************************************************)
(* Expr values built by the parser.                                        *)
(***************************************************************************)
Number(n) == [type |-> "Number", value |-> n]

String(text) == [type |-> "String", value |-> text]

Bool(flag) == [type |-> "Bool", value |-> flag]

Unary(operator, operand) ==
    [type |-> "Unary", operator |-> operator, operand |-> operand]

Binary(left, operator, right) ==
    [type |-> "Binary", left |-> left, operator |-> operator, right |-> right]

Grouping(inner) == [type |-> "Grouping", inner |-> inner]

(***************************************************************************)
(* The parser's helpers.  p is the Parser value [tokens, current].         *)
(***************************************************************************)
\* Variant: the cursor starts on the second token.
NewParserOnSecond(tokens) == [tokens |-> tokens, current |-> 1]

NewParser(tokens) == [tokens |-> tokens, current |-> 0]

peek(p) == p.tokens[p.current + 1]

previous(p) == p.tokens[(p.current - 1) + 1]

\* Variant: no token counts as the end of the input.
is_at_end_never(p) == FALSE

is_at_end(p) == peek(p).token_type.kind = "Eof"

\* check compares discriminants: the kind, never the literal carried.
check(p, kind) ==
    IF is_at_end(p) THEN FALSE ELSE p.tokens[p.current + 1].token_type.kind = kind

advance(p) ==
    IF ~is_at_end(p) THEN [p EXCEPT !.current = @ + 1] ELSE p

\* Variant: a test that matches nothing takes the token all the same.
match_tokens_taking(p, types) ==
    IF \E i \in 1..Len(types) : check(p, types[i])
    THEN [p |-> advance(p), matched |-> TRUE]
    ELSE [p |-> advance(p), matched |-> FALSE]

match_tokens(p, types) ==
    IF \E i \in 1..Len(types) : check(p, types[i])
    THEN [p |-> advance(p), matched |-> TRUE]
    ELSE [p |-> p, matched |-> FALSE]

error(p, message) ==
    SyntaxError(message, peek(p).line, peek(p).column)

\* Variant: the error is placed at the token before the one found.
parser_consume_reporting_previous(p, kind, message) ==
    IF check(p, kind)
    THEN [p |-> advance(p), res |-> Ok(previous(advance(p)))]
    ELSE [p |-> p,
          res |-> Err(SyntaxError(message, previous(p).line, previous(p).column))]

parser_consume(p, kind, message) ==
    IF check(p, kind)
    THEN [p |-> advance(p), res |-> Ok(previous(advance(p)))]
    ELSE [p |-> p, res |-> Err(error(p, message))]

\* Variant: the additive level tests for the multiplicative operators.
TermOperatorsOfFactor == <<"Star", "Slash">>

TermOperators == <<"Plus", "Minus">>

FactorOperators == <<"Star", "Slash">>

UnaryOperators == <<"Minus", "Bang">>

\* The operator of the token matched last (the match on previous().token_type).
BinaryOpOf(kind) ==
    CASE kind = "Plus" -> "Add"
      [] kind = "Minus" -> "Sub"
      [] kind = "Star" -> "Mul"
      [] kind = "Slash" -> "Div"

UnaryOpOf(kind) ==
    CASE kind = "Minus" -> "Negate"
      [] kind = "Bang" -> "Not"

\* Variant: the accumulated expression becomes the right child.
term_fold_to_the_right(expr, operator, right) == Binary(right, operator, expr)

\* Variant: the parentheses are dropped from the tree.
primary_group_flattened(expr) == expr

\* The fold of a binary level: the accumulated expression becomes the left child.
term_fold(expr, operator, right) == Binary(expr, operator, right)

factor_fold(expr, operator, right) == Binary(expr, operator, right)

\* What primary returns once '(' expression ')' has been consumed.
primary_group(expr) == Grouping(expr)

(***************************************************************************)
(* The call stack.  A frame is a production that has been called and has   *)
(* not returned: fn names it, at says where it stands, expr and operator   *)
(* are its locals.                                                         *)
(***************************************************************************)
Frame(fn) == [fn |-> fn, at |-> "start", expr |-> None, operator |-> None]

Top == stack[Len(stack)]

Running(fn, ats) ==
    /\ pc = "parse"
    /\ stack # <<>>
    /\ Top.fn = fn
    /\ Top.at \in ats

Pop == SubSeq(stack, 1, Len(stack) - 1)

\* The frame on top moves to `frame` and calls fn.
Call(frame, fn) == Append(Append(Pop, frame), Frame(fn))

(***************************************************************************)
(* main: scan, then Parser::new and parse.                                 *)
(***************************************************************************)
\* One turn of the loop of scan; when the loop ends, scan returns to main.
ScanStep ==
    /\ pc = "scan"
    /\ LET s == scan_step(lexer)
       IN /\ lexer' = s.lx
          /\ scan_result' = s.result
          /\ pc' = CASE s.result.tag = "Pending" -> "scan"
                     [] s.result.tag = "Ok" -> "scanned"
                     [] OTHER -> "done"
    /\ UNCHANGED <<source, parser, stack, ret, parse_result>>

MainNewParser ==
    /\ pc = "scanned"
    /\ parser' = NewParser(scan_result.value)
    /\ stack' = <<Frame("parse")>>
    /\ pc' = "parse"
    /\ UNCHANGED <<source, lexer, scan_result, ret, parse_result>>

ParseStart ==
    /\ Running("parse", {"start"})
    /\ stack' = Call([Top EXCEPT !.at = "tail"], "expression")
    /\ UNCHANGED <<source, lexer, scan_result, pc, parser, ret, parse_result>>

\* Variant: parse fails unless the expression ends at Eof.
ParseReturnRequiringEof ==
    /\ Running("parse", {"tail"})
    /\ stack' = Pop
    /\ parse_result' = IF ret.tag = "Err" \/ is_at_end(parser)
                       THEN ret
                       ELSE Err(error(parser, <<"Expected end of input">>))
    /\ pc' = "done"
    /\ UNCHANGED <<source, lexer, scan_result, parser, ret>>

ParseReturn ==
    /\ Running("parse", {"tail"})
    /\ stack' = Pop
    /\ parse_result' = ret
    /\ pc' = "done"
    /\ UNCHANGED <<source, lexer, scan_result, parser, ret>>

ExpressionStart ==
    /\ Running("expression", {"start"})
    /\ stack' = Call([Top EXCEPT !.at = "tail"], "term")
    /\ UNCHANGED <<source, lexer, scan_result, pc, parser, ret, parse_result>>

ExpressionReturn ==
    /\ Running("expression", {"tail"})
    /\ stack' = Pop
    /\ UNCHANGED <<source, lexer, scan_result, pc, parser, ret, parse_result>>

\* Variant: a matched operator is left under the cursor.
BinaryLevelResumeInPlace(operators, operand, expr) ==
    IF ret.tag = "Err"
    THEN /\ stack' = Pop
         /\ UNCHANGED <<parser, ret>>
    ELSE LET m == match_tokens(parser, operators)
         IN IF m.matched
            THEN /\ parser' = parser
                 /\ stack' = Call([Top EXCEPT
                                     !.at = "right",
                                     !.expr = expr,
                                     !.operator = BinaryOpOf(previous(m.p).token_type.kind)],
                                  operand)
                 /\ UNCHANGED ret
            ELSE /\ parser' = m.p
                 /\ stack' = Pop
                 /\ ret' = Ok(expr)

\* A binary level after an operand came back: `?` on an error, else test
\* the loop condition with `expr`, the expression accumulated so far; a
\* match calls `operand` again, no match returns expr.
BinaryLevelResume(operators, operand, expr) ==
    IF ret.tag = "Err"
    THEN /\ stack' = Pop
         /\ UNCHANGED <<parser, ret>>
    ELSE LET m == match_tokens(parser, operators)
         IN IF m.matched
            THEN /\ parser' = m.p
                 /\ stack' = Call([Top EXCEPT
                                     !.at = "right",
                                     !.expr = expr,
                                     !.operator = BinaryOpOf(previous(m.p).token_type.kind)],
                                  operand)
                 /\ UNCHANGED ret
            ELSE /\ parser' = m.p
                 /\ stack' = Pop
                 /\ ret' = Ok(expr)

\* The expression a binary level holds once an operand came back as Ok: the
\* operand itself the first time, the fold afterwards.
TermExpr ==
    IF Top.at = "left" THEN ret.value ELSE term_fold(Top.expr, Top.operator, ret.value)

FactorExpr ==
    IF Top.at = "left" THEN ret.value ELSE factor_fold(Top.expr, Top.operator, ret.value)

TermStart ==
    /\ Running("term", {"start"})
    /\ stack' = Call([Top EXCEPT !.at = "left"], "factor")
    /\ UNCHANGED <<source, lexer, scan_result, pc, parser, ret, parse_result>>

TermResume ==
    /\ Running("term", {"left", "right"})
    /\ BinaryLevelResume(TermOperators, "factor", TermExpr)
    /\ UNCHANGED <<source, lexer, scan_result, pc, parse_result>>

FactorStart ==
    /\ Running("factor", {"start"})
    /\ stack' = Call([Top EXCEPT !.at = "left"], "unary")
    /\ UNCHANGED <<source, lexer, scan_result, pc, parser, ret, parse_result>>

FactorResume ==
    /\ Running("factor", {"left", "right"})
    /\ BinaryLevelResume(FactorOperators, "unary", FactorExpr)
    /\ UNCHANGED <<source, lexer, scan_result, pc, parse_result>>

\* Variant: the operand of a prefix operator is parsed by primary.
UnaryStartWithPrimaryOperand ==
    /\ Running("unary", {"start"})
    /\ LET m == match_tokens(parser, UnaryOperators)
       IN /\ parser' = m.p
          /\ stack' = IF m.matched
                      THEN Call([Top EXCEPT
                                   !.at = "operand",
                                   !.operator = UnaryOpOf(previous(m.p).token_type.kind)],
                                "primary")
                      ELSE Call([Top EXCEPT !.at = "tail"], "primary")
    /\ UNCHANGED <<source, lexer, scan_result, pc, ret, parse_result>>

UnaryStart ==
    /\ Running("unary", {"start"})
    /\ LET m == match_tokens(parser, UnaryOperators)
       IN /\ parser' = m.p
          /\ stack' = IF m.matched
                      THEN Call([Top EXCEPT
                                   !.at = "operand",
                                   !.operator = UnaryOpOf(previous(m.p).token_type.kind)],
                                "unary")
                      ELSE Call([Top EXCEPT !.at = "tail"], "primary")
    /\ UNCHANGED <<source, lexer, scan_result, pc, ret, parse_result>>

UnaryReturn ==
    /\ Running("unary", {"operand", "tail"})
    /\ stack' = Pop
    /\ ret' = IF Top.at = "operand" /\ ret.tag = "Ok"
              THEN Ok(Unary(Top.operator, ret.value))
              ELSE ret
    /\ UNCHANGED <<source, lexer, scan_result, pc, parser, parse_result>>

PrimaryStart ==
    /\ Running("primary", {"start"})
    /\ IF is_at_end(parser)
       THEN /\ ret' = Err(error(parser, <<"Unexpected end of input">>))
            /\ stack' = Pop
            /\ UNCHANGED parser
       ELSE LET token == parser.tokens[parser.current + 1]
                kind == token.token_type.kind
            IN CASE kind = "Number" ->
                      /\ parser' = advance(parser)
                      /\ ret' = Ok(Number(token.token_type.value))
                      /\ stack' = Pop
                 [] kind = "String" ->
                      /\ parser' = advance(parser)
                      /\ ret' = Ok(String(token.token_type.value))
                      /\ stack' = Pop
                 [] kind = "True" ->
                      /\ parser' = advance(parser)
                      /\ ret' = Ok(Bool(TRUE))
                      /\ stack' = Pop
                 [] kind = "False" ->
                      /\ parser' = advance(parser)
                      /\ ret' = Ok(Bool(FALSE))
                      /\ stack' = Pop
                 [] kind = "LeftParen" ->
                      /\ parser' = advance(parser)
                      /\ stack' = Call([Top EXCEPT !.at = "group"], "expression")
                      /\ UNCHANGED ret
                 [] OTHER ->
                      \* {:?} of a kind that carries no literal is the kind's name
                      /\ ret' = Err(error(parser, <<"Unexpected token: ", kind>>))
                      /\ stack' = Pop
                      /\ UNCHANGED parser
    /\ UNCHANGED <<source, lexer, scan_result, pc, parse_result>>

PrimaryResume ==
    /\ Running("primary", {"group"})
    /\ stack' = Pop
    /\ IF ret.tag = "Err"
       THEN UNCHANGED <<parser, ret>>
       ELSE LET c == parser_consume(parser, "RightParen",
                                    <<"Expected ')' after expression">>)
            IN /\ parser' = c.p
               /\ ret' = IF c.res.tag = "Ok" THEN Ok(primary_group(ret.value)) ELSE c.res
    /\ UNCHANGED <<source, lexer, scan_result, pc, parse_result>>

(***************************************************************************)
(* The source texts the model runs main on.                                *)
(***************************************************************************)
SourceChars ==
    {"(", ")", "+", "-", "*", "/", "!", ">", "<", "=", " ", "\r", "\t", "\n",
     "\"", "1", "2", "a", "n", "d", "o", "r", "_", "@"}

\* The characters the longest texts are made of.
CoreChars == {"(", ")", "+", "-", "*", "!", "=", "\t", "\n", "\"", "1", "a"}

\* Every text of at most n characters of `chars`.
AllStrings(chars, n) == UNION {[1..k -> chars] : k \in 0..n}

OperandChars == {"1", "2"}

OperatorChars == {"+", "-", "*", "/"}

\* operand (operator operand)*, with k operands.
Chains(k) ==
    {s \in [1..(2 * k - 1) -> OperandChars \cup OperatorChars] :
        \A i \in 1..(2 * k - 1) :
            IF i % 2 = 1 THEN s[i] \in OperandChars ELSE s[i] \in OperatorChars}

\* The chain s with operands i..j put in parentheses.
Parenthesised(s, i, j) ==
    SubSeq(s, 1, 2 * i - 2) \o <<"(">> \o SubSeq(s, 2 * i - 1, 2 * j - 1)
        \o <<")">> \o SubSeq(s, 2 * j, Len(s))

\* Arithmetic expressions of at most n operands, bare or with one group of
\* two or more operands.
ExprStrings(n) ==
    UNION {Chains(k) \cup {Parenthesised(s, ij[1], ij[2]) :
                              s \in Chains(k),
                              ij \in {x \in (1..k) \X (1..k) : x[1] < x[2]}}
           : k \in 1..n}

\* A digit in n pairs of parentheses.
Nested(n, d) == [i \in 1..(2 * n + 1) |->
                    IF i <= n THEN "(" ELSE IF i = n + 1 THEN d ELSE ")"]

NestedStrings(n) == {Nested(k, d) : k \in 0..n, d \in OperandChars}

\* Words, alone and with one character before or after.
Words ==
    {<<"a", "n", "d">>, <<"o", "r">>, <<"o", "r", "_">>, <<"a", "n", "d", "1">>,
     <<"t", "r", "u", "e">>, <<"f", "a", "l", "s", "e">>, <<"x">>,
     <<"a", "n", "d", "r", "o", "i", "d">>}

WordStrings ==
    Words \cup {<<c>> \o w : c \in SourceChars, w \in Words}
          \cup {w \o <<c>> : c \in SourceChars, w \in Words}

\* The inputs of the repository's own tests and of the spec's examples.
TestSources ==
    {<<"4", "2">>,
     <<"1", "2", "3", " ", "4", "5", "6">>,
     <<"\"", "h", "e", "l", "l", "o", "\"">>,
     <<"1", "\n", "2">>,
     <<"\t", "1">>,
     <<"@">>,
     <<"!", "=">>,
     <<"1", " ", "+", " ", "2">>,
     <<"\"", "h", "e", "l", "l", "o", "\n", "w", "o", "r", "l", "d", "\"">>,
     <<"\"", "u", "n", "t", "e", "r", "m", "i", "n", "a", "t", "e", "d", "\n", "s", "t", "r", "i", "n", "g">>,
     <<"2", " ", "+", " ", "3", " ", "*", " ", "4">>,
     <<"1", " ", "+", " ", "2", " ", "+", " ", "3">>,
     <<"(", "1", " ", "+", " ", "2", ")", " ", "*", " ", "3">>,
     <<"-", "5">>,
     <<"-", "-", "5">>,
     <<"(", "1", " ", "+", " ", "2">>,
     <<"1", " ", ">", " ", "2">>}

PrefixChars == {"-", "!"}

\* A digit after k prefix operators.
PrefixRuns(k) == {r \o <<d>> : r \in [1..k -> PrefixChars], d \in OperandChars}

\* Runs of at most n prefix operators before a digit, and u a op b.
PrefixStrings(n) ==
    UNION {PrefixRuns(k) : k \in 0..n}
        \cup {r \o <<op, d>> : r \in PrefixRuns(1), op \in OperatorChars, d \in OperandChars}

\* The comparison and logical operators of the token vocabulary, as written.
OperatorTexts ==
    {<<">">>, <<">", "=">>, <<"<">>, <<"<", "=">>, <<"=", "=">>, <<"!", "=">>,
     <<"a", "n", "d">>, <<"o", "r">>}

\* Each operator alone and between two numbers.
OperatorStrings ==
    OperatorTexts \cup {<<"1", " ">> \o op \o <<" ", "2">> : op \in OperatorTexts}

\* Texts of tokens that no production takes after a complete expression.
TrailingTexts ==
    {<<">">>, <<">", "=">>, <<"<">>, <<"<", "=">>, <<"!", "=">>, <<" ", "o", "r">>,
     <<" ", "a", "n", "d">>, <<" ", "2">>, <<"\"", "a", "\"">>, <<"(">>, <<")">>}

\* A chain of one or two operands followed by such a token and by what may
\* come after it.
TrailingStrings ==
    {c \o t \o r : c \in Chains(1) \cup Chains(2), t \in TrailingTexts,
                   r \in {<<>>, <<"1">>, <<"+", "1">>}}

\* String literals holding a backslash: alone, and before a quote.
EscapeStrings ==
    {<<"\"", "\\", "\"">>, <<"\"", "a", "\\", "\"", "b", "\"">>,
     <<"\"", "\\", "n", "\"", "1">>}

\* Digit runs at the edge of the i32 range.
EdgeNumbers == {I32MaxDigits, [I32MaxDigits EXCEPT ![10] = "8"]}

Sources ==
    AllStrings(CoreChars, MaxSrcLen) \cup AllStrings(SourceChars, MaxShortLen)
        \cup ExprStrings(MaxOperands) \cup NestedStrings(MaxNesting)
        \cup PrefixStrings(MaxPrefix)
        \cup OperatorStrings \cup TrailingStrings \cup EscapeStrings
        \cup WordStrings \cup EdgeNumbers \cup TestSources

Init ==
    /\ source \in Sources
    /\ lexer = NewLexer(source)
    /\ scan_result = Pending
    /\ pc = "scan"
    /\ parser = NewParser(<<>>)
    /\ stack = <<>>
    /\ ret = Pending
    /\ parse_result = Pending

Next ==
    \/ ScanStep
    \/ MainNewParser
    \/ ParseStart
    \/ ParseReturn
    \/ ExpressionStart
    \/ ExpressionReturn
    \/ TermStart
    \/ TermResume
    \/ FactorStart
    \/ FactorResume
    \/ UnaryStart
    \/ UnaryReturn
    \/ PrimaryStart
    \/ PrimaryResume

Spec == Init /\ [][Next]_vars

(***************************************************************************)
(* Definitions the properties are stated with.  They are computed from     *)
(* the source text alone, not from the scanner's counters.                 *)
(***************************************************************************)
\* The characters of the source the scanner has taken so far.
Consumed == SubSeq(source, 1, Len(source) - Len(lexer.chars))

Last(seq) == seq[Len(seq)]

Kinds(tokens) == [i \in 1..Len(tokens) |-> tokens[i].token_type.kind]

\* Line reached after the text s: 1 plus the newlines of s.
LineAfter(s) == 1 + Cardinality({i \in 1..Len(s) : s[i] = "\n"})

\* Column reached after the text s: 4 per tab and 1 per other character
\* since the last newline of s.
RECURSIVE ColumnAfter(_)
ColumnAfter(s) ==
    IF s = <<>> \/ Last(s) = "\n" THEN 0
    ELSE ColumnAfter(SubSeq(s, 1, Len(s) - 1)) + (IF Last(s) = "\t" THEN 4 ELSE 1)

\* The 1-based position at which the character after the text s begins.
StartLine(s) == LineAfter(s)

StartColumn(s) == ColumnAfter(s) + 1

ScanSucceeded == scan_result.tag = "Ok"

ScanFailed == scan_result.tag = "Err"

\* ScanStep is about to run next_token on a character c of the set `firsts`.
TokenStartsWith(firsts) ==
    /\ pc = "scan"
    /\ lexer.chars # <<>>
    /\ Head(lexer.chars) \in firsts

(***************************************************************************)
(* C1.  Whenever scan succeeds, the token sequence it returns is           *)
(* non-empty, its last token is Eof and no earlier token is Eof.           *)
(***************************************************************************)
C1_EofTerminated ==
    ScanSucceeded =>
        LET tokens == scan_result.value
        IN /\ Len(tokens) >= 1
           /\ Last(tokens).token_type.kind = "Eof"
           /\ \A i \in 1..(Len(tokens) - 1) : tokens[i].token_type.kind # "Eof"

C1_Witness ==
    /\ ScanSucceeded
    /\ Len(scan_result.value) >= 3
    /\ Last(scan_result.value).token_type.kind = "Eof"

(***************************************************************************)
(* C4.  Every token a scanner step emits carries the line and column at    *)
(* which its first character began: the token's lexeme is exactly the      *)
(* characters the step consumed, and its position is the start position of *)
(* the first of them, whatever the lexeme contains.                        *)
(***************************************************************************)
C4_TokenStartPosition ==
    [][(/\ pc = "scan"
        /\ Len(lexer'.tokens) > Len(lexer.tokens)
        /\ Last(lexer'.tokens).token_type.kind # "Eof")
       => LET token == Last(lexer'.tokens)
              start == Len(Consumed)
          IN /\ Len(lexer'.tokens) = Len(lexer.tokens) + 1
             /\ token.lexeme # <<>>
             /\ token.lexeme = SubSeq(source, start + 1, start + Len(token.lexeme))
             /\ Len(lexer'.chars) = Len(lexer.chars) - Len(token.lexeme)
             /\ token.line = StartLine(Consumed)
             /\ token.column = StartColumn(Consumed)]_vars

\* A string token spanning a newline was emitted: the scanner stands on a
\* later line than the token.
C4_Witness ==
    /\ Len(lexer.tokens) >= 1
    /\ LET token == lexer.tokens[1]
       IN /\ token.token_type.kind = "String"
          /\ Len(token.lexeme) = 3
          /\ token.lexeme[2] = "\n"
          /\ lexer.line > token.line

(***************************************************************************)
(* C5.  After any consumed prefix, line is 1 plus the newlines consumed    *)
(* and column is the sum over the characters since the last newline of 4   *)
(* per tab and 1 per other character; so the number of "\t1" is at column  *)
(* 5 and the tokens of "1\n2" are at (1,1) and (2,1).                      *)
(***************************************************************************)
C5_LineColumn ==
    /\ lexer.line = LineAfter(Consumed)
    /\ lexer.column = ColumnAfter(Consumed)
    /\ (ScanSucceeded /\ source = <<"\t", "1">>) =>
           /\ scan_result.value[1].token_type.kind = "Number"
           /\ scan_result.value[1].column = 5
    /\ (ScanSucceeded /\ source = <<"1", "\n", "2">>) =>
           /\ <<scan_result.value[1].line, scan_result.value[1].column>> = <<1, 1>>
           /\ <<scan_result.value[2].line, scan_result.value[2].column>> = <<2, 1>>

\* A tab, a newline (inside a string literal) and a tab again were consumed.
C5_Witness ==
    /\ Len(Consumed) >= 3
    /\ \E i, j \in 1..Len(Consumed) :
          /\ i < j
          /\ Consumed[i] = "\n"
          /\ Consumed[j] = "\t"
          /\ \E k \in 1..(i - 1) : Consumed[k] = "\""
    /\ lexer.line = 2
    /\ lexer.column >= 4

(***************************************************************************)
(* C6.  When '!', '>' or '<' starts a token: if '=' follows, the step      *)
(* emits one two-character token and consumes both characters; otherwise   *)
(* it emits the one-character token and consumes that character alone, so  *)
(* the character after it stays next in line and the line and column move  *)
(* by the one character only.                                              *)
(***************************************************************************)
OneCharKind(c) == CASE c = "!" -> "Bang" [] c = ">" -> "Greater" [] c = "<" -> "Less"

TwoCharKind(c) ==
    CASE c = "!" -> "BangEqual" [] c = ">" -> "GreaterEqual" [] c = "<" -> "LessEqual"

C6_TwoCharOperators ==
    [][TokenStartsWith({"!", ">", "<"})
       => LET c == Head(lexer.chars)
              rest == Tail(lexer.chars)
              token == Last(lexer'.tokens)
          IN /\ Len(lexer'.tokens) = Len(lexer.tokens) + 1
             /\ lexer'.line = lexer.line
             /\ IF rest # <<>> /\ Head(rest) = "="
                THEN /\ token.token_type = [kind |-> TwoCharKind(c)]
                     /\ token.lexeme = <<c, "=">>
                     /\ lexer'.chars = Tail(rest)
                     /\ lexer'.column = lexer.column + 2
                ELSE /\ token.token_type = [kind |-> OneCharKind(c)]
                     /\ token.lexeme = <<c>>
                     /\ lexer'.chars = rest
                     /\ lexer'.column = lexer.column + 1]_vars

\* Both outcomes in one scan of "!!=": the first '!' became Bang and left the
\* second '!' in place, which then, followed by '=', became one BangEqual.
C6_Witness ==
    /\ source = <<"!", "!", "=">>
    /\ Len(lexer.tokens) = 2
    /\ lexer.tokens[1].token_type.kind = "Bang"
    /\ lexer.tokens[1].lexeme = <<"!">>
    /\ lexer.tokens[2].token_type.kind = "BangEqual"
    /\ lexer.tokens[2].column = 2

(***************************************************************************)
(* Definitions the parser's properties are stated with.                    *)
(***************************************************************************)
ParseSucceeded == pc = "done" /\ parse_result.tag = "Ok"

\* main ran scan and parse to the end on the tokens of the source.
Parsed == pc = "done" /\ ScanSucceeded

Additive == {"Plus", "Minus"}

Multiplicative == {"Star", "Slash"}

OperatorName(kind) ==
    CASE kind = "Plus" -> "Add" [] kind = "Minus" -> "Sub"
      [] kind = "Star" -> "Mul" [] kind = "Slash" -> "Div"

\* The leaf a Number token stands for.
Leaf(token) == [type |-> "Number", value |-> token.token_type.value]

Node(left, token, right) ==
    [type |-> "Binary", left |-> left,
     operator |-> OperatorName(token.token_type.kind), right |-> right]

Group(inner) == [type |-> "Grouping", inner |-> inner]

\* The tokens are those of x1 op1 x2 ... xn, then Eof: n Number operands
\* separated by operators of `level`.
IsChain(tokens, n, level) ==
    /\ Len(tokens) = 2 * n
    /\ Last(tokens).token_type.kind = "Eof"
    /\ \A i \in 1..(2 * n - 1) :
          IF i % 2 = 1 THEN tokens[i].token_type.kind = "Number"
          ELSE tokens[i].token_type.kind \in level

\* The tree of the first n operands of a chain, folded to the left.
RECURSIVE LeftFold(_, _)
LeftFold(tokens, n) ==
    IF n = 1 THEN Leaf(tokens[1])
    ELSE Node(LeftFold(tokens, n - 1), tokens[2 * n - 2], Leaf(tokens[2 * n - 1]))

RECURSIVE Groups(_, _)
Groups(n, inner) == IF n = 0 THEN inner ELSE Group(Groups(n - 1, inner))

\* The number of Grouping nodes of a tree.
RECURSIVE CountGroupings(_)
CountGroupings(e) ==
    CASE e.type = "Grouping" -> 1 + CountGroupings(e.inner)
      [] e.type = "Binary" -> CountGroupings(e.left) + CountGroupings(e.right)
      [] e.type = "Unary" -> CountGroupings(e.operand)
      [] OTHER -> 0

(***************************************************************************)
(* C2.  Multiplicative operators bind tighter than additive ones: the      *)
(* tokens of a p b m c (p additive, m multiplicative) parse to             *)
(* Binary(p, a, Binary(m, b, c)), those of a m b p c to                    *)
(* Binary(p, Binary(m, a, b), c).                                          *)
(***************************************************************************)
C2_Precedence ==
    Parsed =>
        LET t == scan_result.value
        IN (/\ Len(t) = 6
            /\ IsChain(t, 3, Additive \cup Multiplicative))
           => /\ (t[2].token_type.kind \in Additive /\ t[4].token_type.kind \in Multiplicative)
                    => parse_result =
                         Ok(Node(Leaf(t[1]), t[2], Node(Leaf(t[3]), t[4], Leaf(t[5]))))
              /\ (t[2].token_type.kind \in Multiplicative /\ t[4].token_type.kind \in Additive)
                    => parse_result =
                         Ok(Node(Node(Leaf(t[1]), t[2], Leaf(t[3])), t[4], Leaf(t[5])))

\* "1-2/1" was parsed: Sub at the root, Div below it on the right.
C2_Witness ==
    /\ ParseSucceeded
    /\ source = <<"1", "-", "2", "/", "1">>
    /\ parse_result.value.operator = "Sub"
    /\ parse_result.value.right.type = "Binary"
    /\ parse_result.value.right.operator = "Div"

(***************************************************************************)
(* C3.  Operators of one level associate to the left: the tokens of a      *)
(* chain x1 op1 x2 ... xn whose operators are all additive, or all         *)
(* multiplicative, parse to the left fold of the chain, whose every right  *)
(* child is a single operand.                                              *)
(***************************************************************************)
C3_LeftAssociative ==
    Parsed =>
        LET t == scan_result.value
        IN \A level \in {Additive, Multiplicative} :
              (Len(t) % 2 = 0 /\ IsChain(t, Len(t) \div 2, level))
              => parse_result = Ok(LeftFold(t, Len(t) \div 2))

\* "2-1+2" was parsed to Add(Sub(2, 1), 2).
C3_Witness ==
    /\ ParseSucceeded
    /\ source = <<"2", "-", "1", "+", "2">>
    /\ parse_result.value.operator = "Add"
    /\ parse_result.value.left.type = "Binary"
    /\ parse_result.value.left.operator = "Sub"
    /\ parse_result.value.right = [type |-> "Number", value |-> 2]

(***************************************************************************)
(* C10.  Parentheses are kept as a node of their own: a successful parse   *)
(* has one Grouping node per '(' consumed, the tokens of (a p b) m c parse *)
(* to Binary(m, Grouping(Binary(p, a, b)), c), and a number in n nested    *)
(* pairs of parentheses parses to n nested Grouping nodes.                 *)
(***************************************************************************)
C10_GroupingKept ==
    (Parsed /\ parse_result.tag = "Ok") =>
        LET t == scan_result.value
            k == Kinds(t)
            n == (Len(t) - 2) \div 2
        IN /\ CountGroupings(parse_result.value)
                = Cardinality({i \in 1..parser.current : k[i] = "LeftParen"})
           /\ (/\ Len(t) = 8
               /\ k[1] = "LeftParen" /\ k[2] = "Number" /\ k[3] \in Additive
               /\ k[4] = "Number" /\ k[5] = "RightParen" /\ k[6] \in Multiplicative
               /\ k[7] = "Number")
              => parse_result =
                   Ok(Node(Group(Node(Leaf(t[2]), t[3], Leaf(t[4]))), t[6], Leaf(t[7])))
           /\ (/\ Len(t) >= 2
               /\ Len(t) % 2 = 0
               /\ \A i \in 1..(Len(t) - 1) :
                     k[i] = (IF i <= n THEN "LeftParen"
                             ELSE IF i = n + 1 THEN "Number" ELSE "RightParen"))
              => parse_result = Ok(Groups(n, Leaf(t[n + 1])))

\* "(1+2)*1" was parsed: Mul at the root over a Grouping on the left.
C10_Witness ==
    /\ ParseSucceeded
    /\ source = <<"(", "1", "+", "2", ")", "*", "1">>
    /\ parse_result.value.type = "Binary"
    /\ parse_result.value.left.type = "Grouping"
    /\ parse_result.value.left.inner.type = "Binary"

\* "((1))", two pairs of parentheses, was parsed to two nested Groupings.
C10_NestedReached ==
    /\ ParseSucceeded
    /\ source = <<"(", "(", "1", ")", ")">>
    /\ parse_result.value = Group(Group([type |-> "Number", value |-> 1]))

(***************************************************************************)
(* C7.  Whitespace and token identity.                                     *)
(***************************************************************************)
WhitespaceChars == {" ", "\r", "\t", "\n"}

Strip(s) == SelectSeq(s, LAMBDA c : c \notin WhitespaceChars)

TokenTypes(tokens) == [i \in 1..Len(tokens) |-> tokens[i].token_type]

\* scan of the source without its whitespace succeeds with the same token
\* types (kinds and literal values) as the scan that has just returned.
SameTokensWhenStripped ==
    LET stripped == scan(Strip(source))
    IN /\ stripped.tag = "Ok"
       /\ TokenTypes(stripped.value) = TokenTypes(scan_result.value)

\* Character i of s lies inside a string literal (an odd number of quotes
\* comes before it).
InsideString(s, i) == Cardinality({j \in 1..(i - 1) : s[j] = "\""}) % 2 = 1

WordChar(c) == is_ascii_alphanumeric(c) \/ c = "_"

WhitespaceInsideString(s) ==
    \E i \in 1..Len(s) : s[i] \in WhitespaceChars /\ InsideString(s, i)

\* A run of whitespace has a letter, digit or underscore on both sides.
WhitespaceBetweenWordChars(s) ==
    \E i, j \in 1..Len(s) :
        /\ i + 1 < j
        /\ WordChar(s[i])
        /\ WordChar(s[j])
        /\ \A k \in (i + 1)..(j - 1) : s[k] \in WhitespaceChars

\* C7 as claimed: whenever scan succeeds on an input, scanning the input
\* with all its whitespace removed gives the same token kinds and literal
\* values.
C7_AsClaimed ==
    (pc = "scanned") => SameTokensWhenStripped

\* C7 amended: whenever scan succeeds on an input in which no whitespace
\* lies inside a string literal and no run of whitespace separates two
\* letters, digits or underscores, scanning the input with all its
\* whitespace removed gives the same token kinds and literal values.
C7_WhitespaceTransparent ==
    (/\ pc = "scanned"
     /\ ~WhitespaceInsideString(source)
     /\ ~WhitespaceBetweenWordChars(source))
    => SameTokensWhenStripped

\* A scan of two tokens or more with whitespace between them succeeded.
C7_Witness ==
    /\ pc = "scanned"
    /\ ~WhitespaceInsideString(source)
    /\ ~WhitespaceBetweenWordChars(source)
    /\ Len(source) = 3
    /\ source[2] \in WhitespaceChars
    /\ Len(scan_result.value) = 3

(***************************************************************************)
(* C8.  A '"' with no '"' after it before the end of the input makes scan  *)
(* return the error "Invalid String" at the line and column of that        *)
(* opening quote, whatever newlines and tabs follow it, and no tokens.     *)
(***************************************************************************)
C8_UnterminatedString ==
    [][(/\ TokenStartsWith({"\""})
        /\ \A i \in 2..Len(lexer.chars) : lexer.chars[i] # "\"")
       => /\ scan_result'.tag = "Err"
          /\ scan_result'.error =
                [message |-> <<"Invalid String">>,
                 line |-> StartLine(Consumed),
                 column |-> StartColumn(Consumed)]
          /\ pc' = "done"
          /\ parse_result' = Pending]_vars

\* An unterminated string that began after another token and ran over a
\* newline was reported on the line it began.
C8_Witness ==
    /\ ScanFailed
    /\ scan_result.error.message = <<"Invalid String">>
    /\ scan_result.error.column > 1
    /\ lexer.line > scan_result.error.line
    /\ pc = "done"

(***************************************************************************)
(* C9.  A token that starts with a character outside the scanner's         *)
(* vocabulary makes scan return the error "Unexpected Token: <char>" at    *)
(* that character's line and column, and none of the tokens scanned        *)
(* before it.                                                              *)
(***************************************************************************)
Vocabulary ==
    {"(", ")", "+", "-", "*", "/", "!", ">", "<", " ", "\r", "\t", "\n", "\"", "_"}
        \cup Digits \cup AsciiAlphabetic

C9_UnexpectedCharacter ==
    [][TokenStartsWith(SourceChars \ Vocabulary)
       => /\ scan_result'.tag = "Err"
          /\ scan_result'.error =
                [message |-> <<"Unexpected Token: ", Head(lexer.chars)>>,
                 line |-> StartLine(Consumed),
                 column |-> StartColumn(Consumed)]
          /\ pc' = "done"
          /\ parse_result' = Pending]_vars

\* The scan failed on a character that came after a tab and a token.
C9_Witness ==
    /\ ScanFailed
    /\ scan_result.error.message[1] = "Unexpected Token: "
    /\ Len(lexer.tokens) >= 1
    /\ scan_result.error.column > 5
    /\ pc = "done"

(***************************************************************************)
(* C11.  unary is right-recursive and binds tighter than the binary        *)
(* operators: k prefix operators before a number parse to k nested Unary   *)
(* nodes, the first operator outermost and the number innermost, and the   *)
(* tokens of u a op b parse to Binary(op, Unary(u, a), b).                 *)
(***************************************************************************)
Prefix == {"Minus", "Bang"}

PrefixName(kind) == CASE kind = "Minus" -> "Negate" [] kind = "Bang" -> "Not"

UnaryNode(token, operand) ==
    [type |-> "Unary", operator |-> PrefixName(token.token_type.kind),
     operand |-> operand]

\* The tree of prefix operators i..k of the tokens over the number after them.
RECURSIVE NestedUnary(_, _, _)
NestedUnary(tokens, i, k) ==
    IF i > k THEN Leaf(tokens[k + 1])
    ELSE UnaryNode(tokens[i], NestedUnary(tokens, i + 1, k))

C11_UnaryBinding ==
    Parsed =>
        LET t == scan_result.value
            k == Kinds(t)
            n == Len(t) - 2
        IN /\ (/\ Len(t) >= 2
               /\ \A i \in 1..n : k[i] \in Prefix
               /\ k[n + 1] = "Number")
              => parse_result = Ok(NestedUnary(t, 1, n))
           /\ (/\ Len(t) = 5
               /\ k[1] \in Prefix
               /\ k[2] = "Number"
               /\ k[3] \in Additive \cup Multiplicative
               /\ k[4] = "Number")
              => parse_result = Ok(Node(UnaryNode(t[1], Leaf(t[2])), t[3], Leaf(t[4])))

\* "-!-1" was parsed to Negate(Not(Negate(1))).
C11_Witness ==
    /\ ParseSucceeded
    /\ source = <<"-", "!", "-", "1">>
    /\ parse_result.value.operator = "Negate"
    /\ parse_result.value.operand.operator = "Not"
    /\ parse_result.value.operand.operand.operator = "Negate"
    /\ parse_result.value.operand.operand.operand = [type |-> "Number", value |-> 1]

\* "!2*1" was parsed to Mul(Not(2), 1).
C11_BinaryReached ==
    /\ ParseSucceeded
    /\ source = <<"!", "2", "*", "1">>
    /\ parse_result.value.type = "Binary"
    /\ parse_result.value.left.type = "Unary"

(***************************************************************************)
(* Once a parsing function has returned an error, every caller up to parse *)
(* returns it unchanged and the cursor stays where it was.                 *)
(***************************************************************************)
ErrorPropagates ==
    (pc = "parse" /\ ret.tag = "Err")
        => /\ ret' = ret
           /\ parser' = parser
           /\ pc' = "done" => parse_result' = ret

Found == peek(parser)

(***************************************************************************)
(* C12.  When, after '(' and a complete inner expression, the current      *)
(* token is not ')', parse fails with "Expected ')' after expression" at   *)
(* the line and column of the token found there (Eof when the input        *)
(* ended), and no tree is returned.                                        *)
(***************************************************************************)
C12_MissingRightParen ==
    [][/\ (/\ Running("primary", {"group"})
           /\ ret.tag = "Ok"
           /\ Found.token_type.kind # "RightParen")
          => /\ ret' = Err(SyntaxError(<<"Expected ')' after expression">>,
                                       Found.line, Found.column))
             /\ parser' = parser
       /\ ErrorPropagates]_vars

\* "(1(" failed at the second '(' and "(1 + 2" at Eof.
C12_Witness ==
    /\ pc = "done"
    /\ source = <<"(", "1", "(">>
    /\ parse_result = Err(SyntaxError(<<"Expected ')' after expression">>, 1, 3))
    /\ Found.token_type.kind = "LeftParen"

C12_EofReached ==
    /\ pc = "done"
    /\ source = <<"(", "1", " ", "+", " ", "2">>
    /\ parse_result.tag = "Err"
    /\ parse_result.error.message = <<"Expected ')' after expression">>
    /\ Found.token_type.kind = "Eof"
    /\ parse_result.error.line = Found.line
    /\ parse_result.error.column = Found.column

(***************************************************************************)
(* C13.  Where an operand is required, parse fails with "Unexpected end of *)
(* input" when the current token is Eof and with "Unexpected token: <kind>"*)
(* when it is of a kind other than Number, String, True, False and '(';    *)
(* '-' and '!' never reach primary, unary takes them.  The error carries   *)
(* the line and column of that token.  A token sequence of Eof alone fails *)
(* with "Unexpected end of input".                                         *)
(***************************************************************************)
Operand == {"Number", "String", "True", "False", "LeftParen"}

C13_OperandRequired ==
    [][/\ Running("primary", {"start"})
          => LET kind == Found.token_type.kind
             IN /\ kind \notin Prefix
                /\ kind = "Eof"
                     => ret' = Err(SyntaxError(<<"Unexpected end of input">>,
                                               Found.line, Found.column))
                /\ kind \notin Operand \cup {"Eof"}
                     => ret' = Err(SyntaxError(<<"Unexpected token: ", kind>>,
                                               Found.line, Found.column))
                /\ kind \notin Operand => parser' = parser
       /\ (pc = "parse" /\ Len(parser.tokens) = 1 /\ pc' = "done")
             => /\ parse_result'.tag = "Err"
                /\ parse_result'.error.message = <<"Unexpected end of input">>
       /\ ErrorPropagates]_vars

\* "1+)" failed at ')' after a binary operator.
C13_Witness ==
    /\ pc = "done"
    /\ source = <<"1", "+", ")">>
    /\ parse_result = Err(SyntaxError(<<"Unexpected token: ", "RightParen">>, 1, 3))

\* "-" failed at Eof after a prefix operator, and the empty input at its Eof.
C13_EofReached ==
    /\ pc = "done"
    /\ source \in {<<"-">>, <<>>}
    /\ parse_result.tag = "Err"
    /\ parse_result.error.message = <<"Unexpected end of input">>

(***************************************************************************)
(* C14.  scan is total: for every input it ends by returning a token       *)
(* sequence or a SyntaxError, never by aborting, a digit run of any length *)
(* and value included.                                                     *)
(***************************************************************************)
C14_ScanTotal ==
    pc # "scan" => scan_result.tag \in {"Ok", "Err"}

(***************************************************************************)
(* C15.  Positions are 1-based everywhere: every token scan returns, the   *)
(* Eof token included, and every SyntaxError scan or parse returns has     *)
(* line >= 1 and column >= 1, for every input, the empty input and inputs  *)
(* ending in a newline included.                                           *)
(***************************************************************************)
OneBased(at) == at.line >= 1 /\ at.column >= 1

C15_OneBasedPositions ==
    /\ scan_result.tag = "Ok"
         => \A i \in 1..Len(scan_result.value) : OneBased(scan_result.value[i])
    /\ scan_result.tag = "Err" => OneBased(scan_result.error)
    /\ parse_result.tag = "Err" => OneBased(parse_result.error)

(***************************************************************************)
(* C16.  Every comparison operator (>, >=, <, <=, ==, !=) and both logical *)
(* keywords (and, or) are recognised by scan: the operator alone scans to  *)
(* its token followed by Eof, and 1 <op> 2 scans to Number, the operator's *)
(* token, Number, Eof.                                                     *)
(***************************************************************************)
OperatorKind(text) ==
    CASE text = <<">">> -> "Greater" [] text = <<">", "=">> -> "GreaterEqual"
      [] text = <<"<">> -> "Less" [] text = <<"<", "=">> -> "LessEqual"
      [] text = <<"=", "=">> -> "EqualEqual" [] text = <<"!", "=">> -> "BangEqual"
      [] text = <<"a", "n", "d">> -> "And" [] text = <<"o", "r">> -> "Or"

C16_OperatorsRecognised ==
    pc # "scan" =>
        \A op \in OperatorTexts :
            /\ source = op
                 => /\ ScanSucceeded
                    /\ Kinds(scan_result.value) = <<OperatorKind(op), "Eof">>
            /\ source = <<"1", " ">> \o op \o <<" ", "2">>
                 => /\ ScanSucceeded
                    /\ Kinds(scan_result.value)
                         = <<"Number", OperatorKind(op), "Number", "Eof">>

(***************************************************************************)
(* C17.  parse does not require the whole token sequence to be consumed:   *)
(* when a complete expression is followed by a token no production takes   *)
(* there (a comparison or logical operator, a Number, a String, '(' or an  *)
(* unmatched ')'), parse returns Ok with the tree of the expression parsed *)
(* so far and leaves the cursor on that token; the tokens of 1 > 2 parse   *)
(* to Number(1).                                                           *)
(***************************************************************************)
NotTaken ==
    {"Greater", "GreaterEqual", "Less", "LessEqual", "EqualEqual", "BangEqual",
     "And", "Or", "Number", "String", "LeftParen", "RightParen"}

\* Tokens 1..2n-1 are n numbers joined by operators of the level, and token
\* 2n is one that is not taken.
ChainThenNotTaken(tokens, n, level) ==
    /\ 2 * n < Len(tokens)
    /\ \A i \in 1..(2 * n - 1) :
          IF i % 2 = 1 THEN tokens[i].token_type.kind = "Number"
          ELSE tokens[i].token_type.kind \in level
    /\ tokens[2 * n].token_type.kind \in NotTaken

C17_PartialParse ==
    Parsed =>
        LET t == scan_result.value
        IN /\ \A n \in 1..(Len(t) \div 2) : \A level \in {Additive, Multiplicative} :
                 ChainThenNotTaken(t, n, level)
                 => /\ parse_result = Ok(LeftFold(t, n))
                    /\ parser.current = 2 * n - 1
                    /\ parser.tokens = t
           /\ source = <<"1", " ", ">", " ", "2">>
                 => parse_result = Ok([type |-> "Number", value |-> 1])

\* "1+2>=1" was parsed to Add(1, 2) with the cursor left on '>='.
C17_Witness ==
    /\ ParseSucceeded
    /\ source = <<"1", "+", "2", ">", "=", "1">>
    /\ parse_result.value.type = "Binary"
    /\ peek(parser).token_type.kind = "GreaterEqual"
    /\ ~is_at_end(parser)

\* "1 > 2" was parsed to Number(1) with the cursor left on '>'.
C17_ExampleReached ==
    /\ ParseSucceeded
    /\ source = <<"1", " ", ">", " ", "2">>
    /\ parser.current = 1

(***************************************************************************)
(* C18.  scan and parse always terminate.  A scanner step that does not    *)
(* end the scan consumes at least one character, and what is left is       *)
(* always a suffix of what was left before, so no character is consumed    *)
(* twice.  In the parser every iteration of the loops of term and factor   *)
(* and every recursive call of unary, or of expression from primary, comes *)
(* with an advance that moves the cursor by one; the cursor never moves    *)
(* back and never passes the Eof token that ends the sequence.  Every step *)
(* of main lowers a measure that is bounded below, and a step can be taken *)
(* until main is done: main ends after finitely many steps.                *)
(***************************************************************************)
IsSuffix(s, t) == Len(s) <= Len(t) /\ s = SubSeq(t, Len(t) - Len(s) + 1, Len(t))

\* The step calls a parsing function again from a loop or a recursion.
Reentered ==
    /\ pc = "parse"
    /\ Len(stack') = Len(stack) + 1
    /\ stack'[Len(stack)].at \in {"right", "operand", "group"}

Phase(at) ==
    CASE at = "scan" -> 3 [] at = "scanned" -> 2 [] at = "parse" -> 1 [] at = "done" -> 0

\* The depth of the grammar below a parsing function.
Level(fn) ==
    CASE fn = "parse" -> 6 [] fn = "expression" -> 5 [] fn = "term" -> 4
      [] fn = "factor" -> 3 [] fn = "unary" -> 2 [] fn = "primary" -> 1

\* What the frames can still do without an advance: a frame that has not
\* started can call down the whole grammar below it, a frame that waits or
\* resumes has only its return left.
RECURSIVE Pending_calls(_)
Pending_calls(frames) ==
    IF frames = <<>> THEN 0
    ELSE (IF Head(frames).at = "start" THEN 2 * Level(Head(frames).fn) ELSE 1)
            + Pending_calls(Tail(frames))

Measure(at, lx, p, frames) ==
    <<Phase(at), Len(lx.chars), Len(p.tokens) - p.current, Pending_calls(frames)>>

\* m is below n in the lexicographic order of tuples of naturals.
Below(m, n) ==
    \E i \in 1..Len(n) : m[i] < n[i] /\ \A j \in 1..(i - 1) : m[j] = n[j]

\* The places where a parsing function starts or resumes.
Places ==
    {<<"parse", "start">>, <<"parse", "tail">>,
     <<"expression", "start">>, <<"expression", "tail">>,
     <<"term", "start">>, <<"term", "left">>, <<"term", "right">>,
     <<"factor", "start">>, <<"factor", "left">>, <<"factor", "right">>,
     <<"unary", "start">>, <<"unary", "operand">>, <<"unary", "tail">>,
     <<"primary", "start">>, <<"primary", "group">>}

\* main is at a place from which it takes its next step.
Runnable ==
    \/ pc \in {"scan", "scanned"}
    \/ pc = "parse" /\ stack # <<>> /\ <<Top.fn, Top.at>> \in Places

C18_Terminates ==
    [][/\ Below(Measure(pc', lexer', parser', stack'), Measure(pc, lexer, parser, stack))
       /\ pc = "scan"
          => /\ IsSuffix(lexer'.chars, lexer.chars)
             /\ pc' = "scan" => Len(lexer'.chars) < Len(lexer.chars)
       /\ pc = "parse"
          => /\ parser'.tokens = parser.tokens
             /\ parser'.current >= parser.current
             /\ parser'.current < Len(parser.tokens)
             /\ Last(parser.tokens).token_type.kind = "Eof"
       /\ Reentered => parser'.current = parser.current + 1
       /\ pc' # "done" => Runnable']_vars

\* "(1 + 2) * 3" went through both loops and a group, and main ended.
C18_Witness ==
    /\ pc = "done"
    /\ source = <<"(", "1", " ", "+", " ", "2", ")", " ", "*", " ", "3">>
    /\ ParseSucceeded
    /\ is_at_end(parser)
    /\ lexer.chars = <<>>

(***************************************************************************)
(* C19.  An identifier-like run, an ASCII letter or underscore followed    *)
(* greedily by ASCII letters, digits and underscores, emits the And token  *)
(* only when the whole run is "and" and the Or token only when it is "or"; *)
(* any other run emits no token and raises no error, and the column moves  *)
(* past the run all the same.                                              *)
(***************************************************************************)
RunChars == AsciiAlphabetic \cup Digits \cup {"_"}

\* The length of the longest prefix of s made of RunChars.
RunLength(s) ==
    CHOOSE n \in 0..Len(s) :
        /\ \A i \in 1..n : s[i] \in RunChars
        /\ n = Len(s) \/ s[n + 1] \notin RunChars

C19_IdentifierRun ==
    [][TokenStartsWith(AsciiAlphabetic \cup {"_"})
       => LET n == RunLength(lexer.chars)
              run == SubSeq(lexer.chars, 1, n)
              kind == CASE run = <<"a", "n", "d">> -> "And"
                        [] run = <<"o", "r">> -> "Or"
                        [] OTHER -> None
          IN /\ lexer'.chars = SubSeq(lexer.chars, n + 1, Len(lexer.chars))
             /\ scan_result' = Pending
             /\ pc' = "scan"
             /\ lexer'.line = lexer.line
             /\ lexer'.column = lexer.column + n
             /\ lexer'.tokens =
                   IF kind = None THEN lexer.tokens
                   ELSE Append(lexer.tokens,
                               Token(TT(kind), run, lexer.line, lexer.column + 1))]_vars

\* "or_" and then '+': the run left no token and '+' stands at column 4.
C19_Witness ==
    /\ ScanSucceeded
    /\ source = <<"o", "r", "_", "+">>
    /\ Kinds(scan_result.value) = <<"Plus", "Eof">>
    /\ scan_result.value[1].column = 4

\* "android" left nothing but Eof, "and" left And.
C19_WordsReached ==
    /\ ScanSucceeded
    /\ \/ source = <<"a", "n", "d", "r", "o", "i", "d">>
             /\ Kinds(scan_result.value) = <<"Eof">>
       \/ source = <<"a", "n", "d">> /\ Kinds(scan_result.value) = <<"And", "Eof">>

(***************************************************************************)
(* C20.  For a terminated string literal the String token's value is the   *)
(* characters between the opening quote and the first '"' after it, with   *)
(* no escape processing and with newlines kept: the lexeme without its     *)
(* first and last character, the lexeme holding both quotes.               *)
(***************************************************************************)
\* The place of the first '"' after the opening one.
ClosingQuote(s) ==
    CHOOSE i \in 2..Len(s) : s[i] = "\"" /\ \A j \in 2..(i - 1) : s[j] # "\""

C20_StringValue ==
    [][(/\ TokenStartsWith({"\""})
        /\ \E i \in 2..Len(lexer.chars) : lexer.chars[i] = "\"")
       => LET i == ClosingQuote(lexer.chars)
              token == Last(lexer'.tokens)
          IN /\ Len(lexer'.tokens) = Len(lexer.tokens) + 1
             /\ token.token_type = TTString(SubSeq(lexer.chars, 2, i - 1))
             /\ token.lexeme = SubSeq(lexer.chars, 1, i)
             /\ token.token_type.value
                   = SubSeq(token.lexeme, 2, Len(token.lexeme) - 1)
             /\ lexer'.chars = SubSeq(lexer.chars, i + 1, Len(lexer.chars))
             /\ scan_result' = Pending]_vars

\* A backslash before the closing quote is a character of the value, and
\* the quote after it ends the literal.
C20_Witness ==
    /\ pc # "scan"
    /\ source = <<"\"", "a", "\\", "\"", "b", "\"">>
    /\ Len(lexer.tokens) >= 1
    /\ lexer.tokens[1].token_type = TTString(<<"a", "\\">>)
    /\ lexer.tokens[1].lexeme = <<"\"", "a", "\\", "\"">>

\* A newline inside the quotes is kept in the value.
C20_NewlineReached ==
    /\ ScanSucceeded
    /\ source = <<"\"", "\n", "\"">>
    /\ scan_result.value[1].token_type = TTString(<<"\n">>)

(***************************************************************************)
(* C21.  The parser never indexes outside the token sequence: whenever it  *)
(* can peek, the cursor lies between 0 and the index of the first Eof      *)
(* token; advance is executed only on a token that is not Eof, so the      *)
(* cursor it leaves is at least 1 where previous() reads.                  *)
(***************************************************************************)
\* The index, from 0, of the first Eof token.
FirstEof(tokens) ==
    (CHOOSE i \in 1..Len(tokens) :
        /\ tokens[i].token_type.kind = "Eof"
        /\ \A j \in 1..(i - 1) : tokens[j].token_type.kind # "Eof") - 1

FoundIn(kinds) == parser.tokens[parser.current + 1].token_type.kind \in kinds

\* The step that main takes next executes advance: an operator matched in
\* term, factor or unary, a literal or '(' in primary, or the ')' consumed
\* after a group.
AdvanceExecuted ==
    \/ Running("term", {"left", "right"}) /\ ret.tag = "Ok" /\ FoundIn(Additive)
    \/ Running("factor", {"left", "right"}) /\ ret.tag = "Ok"
          /\ FoundIn(Multiplicative)
    \/ Running("unary", {"start"}) /\ FoundIn(Prefix)
    \/ Running("primary", {"start"}) /\ FoundIn(Operand)
    \/ Running("primary", {"group"}) /\ ret.tag = "Ok" /\ FoundIn({"RightParen"})

C21_CursorInRange ==
    [][pc' \in {"parse", "done"} /\ scan_result'.tag = "Ok"
       => /\ parser'.tokens # <<>>
          /\ Last(parser'.tokens).token_type.kind = "Eof"
          /\ 0 <= parser'.current
          /\ parser'.current <= FirstEof(parser'.tokens)
          /\ pc = "parse"
             => /\ AdvanceExecuted <=> parser' # parser
                /\ AdvanceExecuted
                   => /\ ~FoundIn({"Eof"})
                      /\ parser'.current = parser.current + 1
                      /\ parser'.current >= 1]_vars

\* "1+2" was parsed to its end: the cursor stands on the Eof token, the
\* last index of the sequence.
C21_Witness ==
    /\ ParseSucceeded
    /\ source = <<"1", "+", "2">>
    /\ parser.current = 3
    /\ parser.current = FirstEof(parser.tokens)
    /\ parser.current = Len(parser.tokens) - 1

(***************************************************************************)
(* C22.  Tests of the shape of the current token do not consume: check, a  *)
(* match_tokens call that matches none of its kinds and a consume call     *)
(* whose expected kind is not the current token leave the cursor where it  *)
(* is; only advance, through a match_tokens or consume that succeeds or a  *)
(* literal or '(' branch of primary, moves it, by exactly one token.       *)
(***************************************************************************)
TokenKinds ==
    {"LeftParen", "RightParen", "Plus", "Minus", "Star", "Slash", "Bang",
     "BangEqual", "EqualEqual", "Greater", "GreaterEqual", "Less", "LessEqual",
     "And", "Or", "True", "False", "Number", "String", "Eof"}

C22_TestsDoNotConsume ==
    /\ [](pc = "parse"
          => /\ \A kind \in TokenKinds :
                   LET c == parser_consume(parser, kind, <<"expected">>)
                   IN /\ check(parser, kind) \in BOOLEAN
                      /\ check(parser, kind) <=> FoundIn({kind} \ {"Eof"})
                      /\ c.res.tag = "Err" <=> ~check(parser, kind)
                      /\ c.res.tag = "Err" => c.p = parser
                      /\ c.res.tag = "Ok"
                           => c.p = [parser EXCEPT !.current = @ + 1]
             /\ \A types \in {TermOperators, FactorOperators, UnaryOperators} :
                   LET m == match_tokens(parser, types)
                   IN /\ ~m.matched => m.p = parser
                      /\ m.matched => m.p = [parser EXCEPT !.current = @ + 1])
    /\ [][pc = "parse"
          => \/ parser' = parser
             \/ parser' = advance(parser) /\ parser'.current = parser.current + 1]_vars

\* In "1)" term tested ')' against its operators and left it: parse ended
\* with the cursor still on ')'.
C22_Witness ==
    /\ ParseSucceeded
    /\ source = <<"1", ")">>
    /\ parser.current = 1
    /\ FoundIn({"RightParen"})
    /\ ~match_tokens(parser, TermOperators).matched

(***************************************************************************)
(* C23.  The boolean literal kinds are never produced: for no input does   *)
(* scan emit a True or a False token, the words true and false being       *)
(* discarded as identifiers; primary never stands on such a token and no   *)
(* tree parsed from scanned text holds a Bool node.                        *)
(***************************************************************************)
Booleans == {"True", "False"}

RECURSIVE HasBool(_)
HasBool(e) ==
    CASE e.type = "Bool" -> TRUE
      [] e.type = "Grouping" -> HasBool(e.inner)
      [] e.type = "Binary" -> HasBool(e.left) \/ HasBool(e.right)
      [] e.type = "Unary" -> HasBool(e.operand)
      [] OTHER -> FALSE

C23_NoBooleans ==
    /\ \A i \in 1..Len(lexer.tokens) : lexer.tokens[i].token_type.kind \notin Booleans
    /\ scan_result.tag = "Ok"
          => \A i \in 1..Len(scan_result.value) :
                scan_result.value[i].token_type.kind \notin Booleans
    /\ Running("primary", {"start"}) => ~FoundIn(Booleans)
    /\ ret.tag = "Ok" => ~HasBool(ret.value)
    /\ parse_result.tag = "Ok" => ~HasBool(parse_result.value)

\* "true" after '(' left no token: parse failed at Eof where the operand
\* was required.
C23_Witness ==
    /\ pc = "done"
    /\ source = <<"(", "t", "r", "u", "e">>
    /\ Kinds(scan_result.value) = <<"LeftParen", "Eof">>
    /\ parse_result.tag = "Err"
    /\ parse_result.error.message = <<"Unexpected end of input">>

\* "false" alone scanned to Eof alone.
C23_FalseReached ==
    /\ ScanSucceeded
    /\ source = <<"f", "a", "l", "s", "e">>
    /\ Kinds(scan_result.value) = <<"Eof">>

(***************************************************************************)
(* C24.  Tokens are emitted in source order with strictly increasing start *)
(* positions: of two consecutive tokens other than Eof of a successful     *)
(* scan the later one's (line, column) is lexicographically greater, and   *)
(* the line of the Eof token is not smaller than the line of any token.    *)
(***************************************************************************)
Before(a, b) == a.line < b.line \/ (a.line = b.line /\ a.column < b.column)

C24_IncreasingPositions ==
    ScanSucceeded =>
        LET tokens == scan_result.value
            n == Len(tokens)
        IN /\ \A i \in 1..(n - 2) : Before(tokens[i], tokens[i + 1])
           /\ \A i \in 1..(n - 1) : tokens[i].line <= tokens[n].line

\* "1\n2": the second number starts on a later line at a smaller column,
\* and Eof stands on that line.
C24_Witness ==
    /\ ScanSucceeded
    /\ source = <<"1", "\n", "2">>
    /\ scan_result.value[1].line = 1 /\ scan_result.value[1].column = 1
    /\ scan_result.value[2].line = 2 /\ scan_result.value[2].column = 1
    /\ scan_result.value[3].line = 2

\* Two tokens on one line, the later one after a tab.
C24_SameLineReached ==
    /\ ScanSucceeded
    /\ source = <<"1", "\t", "1">>
    /\ scan_result.value[1].line = scan_result.value[2].line
    /\ scan_result.value[1].column < scan_result.value[2].column

====
